---- MODULE Spec2Model ----
(***************************************************************************)
(* Model of src/main.py: MatrixBot, a Matrix chat bot that answers every   *)
(* room message with one Gemini call.  The process (run) logs in,          *)
(* registers two event callbacks and enters sync_forever, which hands the  *)
(* received events one after the other to message_callback and             *)
(* auto_join_invites.  Every remote call (login, close, generate_content,  *)
(* room_send, join) is split in two steps, the call and its return, and    *)
(* is recorded in the history variable log.                                *)
(***************************************************************************)
EXTENDS Integers, Sequences, FiniteSets, TLC

\* ---- bounds of the model ----
MaxEvents == 2          \* events delivered by the homeserver in one run

\* ---- program constants ----
MATRIX_USER_ID == "@bot"
FEDORA_COREOS_DOCS_URL == "https://docs.fedoraproject.org/en-US/fedora-coreos/"
ApologyText == "Sorry, an error occurred with the AI."
GeminiModel == "gemini-2.5-flash"

\* ---- input domains ----
Senders == {MATRIX_USER_ID, "@alice"}
Rooms == {"!r1", "!r2"}
Bodies == {"q1", "q2"}
AITexts == {"a1"}
\* the code only compares a timestamp with the start time (one test, <): one
\* start time, a timestamp before it and the boundary case, one equal to it
StartTimes == {1}
Timestamps == {0, 1}
FaqFiles == {"missing", "unreadable", "faq-A"}
LoginResults == {"LoginResponse", "LoginError", "raise"}
CallResults == {"ok", "error", "raise"}

VARIABLES
    faq_file,           \* the state of faq.adoc when the bot is constructed
    pc,                 \* position of run(): init, login, closing, logged_in, sync, terminated
    start_time_ms,      \* self.start_time_ms
    system_instruction, \* self.system_instruction
    tools,              \* self.tools
    callbacks,          \* callbacks registered with add_event_callback
    login_response,     \* what matrix_client.login returned ("none" before)
    exit_status,        \* -1 while the process runs, else its exit status
    events,             \* the events received so far, in receipt order
    dispatched,         \* number of events handed to a callback so far
    hpc,                \* position of the running callback: idle, ai, send_reply, send_apology, join
    log                 \* history: every remote call, in call order

vars == <<faq_file, pc, start_time_ms, system_instruction, tools, callbacks,
          login_response, exit_status, events, dispatched, hpc, log>>

config == <<faq_file, start_time_ms, system_instruction, tools>>
handler == <<events, dispatched, hpc>>

\* ---- pure helpers ----

\* what load_context_from_file would hand to __init__ if an error left it
LoadRaised == "<exception>"

load_context_from_file_Uncaught(file) ==
    IF file = "missing" THEN ""
    ELSE IF file = "unreadable" THEN LoadRaised
    ELSE file

\* load_context_from_file: the whole content of the file (a readable file is
\* named by its content), or "" on FileNotFoundError and on any other Exception
load_context_from_file(file) ==
    IF file = "missing" THEN ""
    ELSE IF file = "unreadable" THEN ""
    ELSE file

\* the f-string of __init__, as the sequence of its parts
SystemInstruction(faq_context) ==
    <<"rules", FEDORA_COREOS_DOCS_URL, "--- INTERNAL KNOWLEDGE BASE ---",
      faq_context, "--- END OF KNOWLEDGE BASE ---">>

ToolSet == <<"google_search", "url_context">>

\* a record of one remote call; res is "pending" until the call returns
Call(kind, ev, arg) == [call |-> kind, ev |-> ev, arg |-> arg, res |-> "pending", ret |-> "none"]

\* the last call of the log, returned with result r and value v
Returned(r, v) ==
    [log EXCEPT ![Len(log)] = [@ EXCEPT !.res = r, !.ret = v]]

\* ---- construction ----
\* an exception leaving load_context_from_file would leave __init__ and end
\* the process before run() starts
Init ==
    /\ faq_file \in FaqFiles
    /\ start_time_ms \in StartTimes
    /\ IF load_context_from_file(faq_file) = LoadRaised
          THEN /\ pc = "terminated"
               /\ exit_status = 1
               /\ system_instruction = <<>>
          ELSE /\ pc = "init"
               /\ exit_status = -1
               /\ system_instruction = SystemInstruction(load_context_from_file(faq_file))
    /\ tools = ToolSet
    /\ callbacks = {}
    /\ login_response = "none"
    /\ events = <<>>
    /\ dispatched = 0
    /\ hpc = "idle"
    /\ log = <<>>

\* ---- run() and login() ----

LoginSucceeded_Always(response) == TRUE

\* login(): isinstance(response, LoginResponse)
LoginSucceeded(response) == response = "LoginResponse"

\* run(): await self.login(), up to the login call
LoginCall ==
    /\ pc = "init"
    /\ pc' = "login"
    /\ log' = Append(log, Call("login", 0, "fedora-qa-bot"))
    /\ UNCHANGED <<config, callbacks, login_response, exit_status, handler>>

\* login(): the call returns a response
LoginReturn ==
    /\ pc = "login"
    /\ \E response \in LoginResults \ {"raise"} :
          /\ login_response' = response
          /\ log' = Returned("ok", response)
          /\ pc' = IF LoginSucceeded(response) THEN "logged_in" ELSE "closing"
    /\ UNCHANGED <<config, callbacks, exit_status, handler>>

\* login(): the call raises (no Response at all); nothing catches it
LoginRaise ==
    /\ pc = "login"
    /\ login_response' = "raise"
    /\ log' = Returned("raise", "none")
    /\ pc' = "terminated"
    /\ exit_status' = 1
    /\ UNCHANGED <<config, callbacks, handler>>

\* login(): await self.matrix_client.close(); exit(1)
CloseExit ==
    /\ pc = "closing"
    /\ \E r \in {"ok", "raise"} :
          log' = Append(log, [Call("close", 0, "none") EXCEPT !.res = r])
    /\ pc' = "terminated"
    /\ exit_status' = 1
    /\ UNCHANGED <<config, callbacks, login_response, handler>>

\* run(): the two add_event_callback calls, then sync_forever is entered
RegisterCallbacks ==
    /\ pc = "logged_in"
    /\ callbacks' = {"message_callback", "auto_join_invites"}
    /\ pc' = "sync"
    /\ UNCHANGED <<config, login_response, exit_status, handler, log>>

\* ---- the event stream ----

MessageEvents ==
    [type : {"RoomMessageText"}, sender : Senders, room_id : Rooms,
     server_timestamp : Timestamps, body : Bodies]

InviteEvents ==
    [type : {"InviteMemberEvent"}, state_key : Senders, room_id : Rooms]

IsMessage(e) == e.type = "RoomMessageText"
IsInvite(e) == e.type = "InviteMemberEvent"

\* sync_forever: the homeserver delivers one more event
Receive ==
    /\ pc = "sync"
    /\ Len(events) < MaxEvents
    /\ \E e \in MessageEvents \cup InviteEvents : events' = Append(events, e)
    /\ UNCHANGED <<pc, config, callbacks, login_response, exit_status, dispatched, hpc, log>>

HandlerFree_Always == TRUE

\* sync_forever awaits each callback: the next one starts when none is running
HandlerFree == hpc = "idle"

\* the event a callback is started on next, and the one being handled
NextEvent == events[dispatched + 1]
CurrentEvent == events[dispatched]

CanDispatch ==
    /\ pc = "sync"
    /\ HandlerFree
    /\ dispatched < Len(events)

\* ---- message_callback ----

IsOwnMessage_NoCheck(e) == FALSE

\* if event.sender == self.matrix_client.user_id: return
IsOwnMessage(e) == e.sender = MATRIX_USER_ID

PredatesStart_Inclusive(e) == e.server_timestamp <= start_time_ms

\* if event.server_timestamp < self.start_time_ms: return
PredatesStart(e) == e.server_timestamp < start_time_ms

GenerateArgs_Accumulating(user_text) ==
    [model |-> GeminiModel, contents |-> user_text,
     system_instruction |-> Append(system_instruction, user_text), tools |-> tools]

\* the arguments of generate_content
GenerateArgs(user_text) ==
    [model |-> GeminiModel, contents |-> user_text,
     system_instruction |-> system_instruction, tools |-> tools]

SendArgs_FirstRoom(room_id, message) ==
    [room_id |-> "!r1", message_type |-> "m.room.message",
     content |-> [msgtype |-> "m.text", body |-> message,
                  formatted_body |-> message, format |-> "org.matrix.custom.html"]]

SendArgs_Markup(room_id, message) ==
    [room_id |-> room_id, message_type |-> "m.room.message",
     content |-> [msgtype |-> "m.text", body |-> message,
                  formatted_body |-> <<"<p>", message, "</p>">>,
                  format |-> "org.matrix.custom.html"]]

\* send_message: the arguments of room_send
SendArgs(room_id, message) ==
    [room_id |-> room_id, message_type |-> "m.room.message",
     content |-> [msgtype |-> "m.text", body |-> message,
                  formatted_body |-> message, format |-> "org.matrix.custom.html"]]

\* message_callback on an event one of the two filters drops: it returns at once
MessageIgnored ==
    /\ CanDispatch
    /\ "message_callback" \in callbacks
    /\ IsMessage(NextEvent)
    /\ IsOwnMessage(NextEvent) \/ PredatesStart(NextEvent)
    /\ dispatched' = dispatched + 1
    /\ hpc' = "idle"
    /\ UNCHANGED <<pc, config, callbacks, login_response, exit_status, events, log>>

\* message_callback on an accepted event, up to the generate_content call
MessageAccepted ==
    /\ CanDispatch
    /\ "message_callback" \in callbacks
    /\ IsMessage(NextEvent)
    /\ ~IsOwnMessage(NextEvent)
    /\ ~PredatesStart(NextEvent)
    /\ dispatched' = dispatched + 1
    /\ hpc' = "ai"
    /\ log' = Append(log, Call("generate_content", dispatched + 1, GenerateArgs(NextEvent.body)))
    /\ UNCHANGED <<pc, config, callbacks, login_response, exit_status, events>>

\* generate_content returns: await self.send_message(room.room_id, response.text)
AIReturn ==
    /\ pc = "sync"
    /\ hpc = "ai"
    /\ \E text \in AITexts :
          log' = Append(Returned("ok", text),
                        Call("room_send", dispatched, SendArgs(CurrentEvent.room_id, text)))
    /\ hpc' = "send_reply"
    /\ UNCHANGED <<pc, config, callbacks, login_response, exit_status, events, dispatched>>

ExceptMessage_SendAgain(unsent) ==
    IF unsent = "none" THEN ApologyText ELSE unsent

\* the message the except clause sends; unsent is the reply whose send raised,
\* "none" when it was generate_content that raised
ExceptMessage(unsent) == ApologyText

\* generate_content raises: the except clause sends the apology
AIRaise ==
    /\ pc = "sync"
    /\ hpc = "ai"
    /\ log' = Append(Returned("raise", "none"),
                     Call("room_send", dispatched,
                          SendArgs(CurrentEvent.room_id, ExceptMessage("none"))))
    /\ hpc' = "send_apology"
    /\ UNCHANGED <<pc, config, callbacks, login_response, exit_status, events, dispatched>>

\* room_send returns a response (RoomSendResponse or RoomSendError, which the
\* code does not look at): the callback is over
SendReturn ==
    /\ pc = "sync"
    /\ hpc \in {"send_reply", "send_apology"}
    /\ \E r \in CallResults \ {"raise"} : log' = Returned(r, "none")
    /\ hpc' = "idle"
    /\ UNCHANGED <<pc, config, callbacks, login_response, exit_status, events, dispatched>>

\* room_send of the reply raises inside the try block: the same except clause
\* sends the apology
ReplySendRaise ==
    /\ pc = "sync"
    /\ hpc = "send_reply"
    /\ log' = Append(Returned("raise", "none"),
                     Call("room_send", dispatched,
                          SendArgs(CurrentEvent.room_id,
                                   ExceptMessage(log[Len(log)].arg.content.body))))
    /\ hpc' = "send_apology"
    /\ UNCHANGED <<pc, config, callbacks, login_response, exit_status, events, dispatched>>

\* room_send of the apology raises inside the except clause: nothing catches
\* it, it leaves message_callback, sync_forever and run
ApologySendRaise ==
    /\ pc = "sync"
    /\ hpc = "send_apology"
    /\ log' = Returned("raise", "none")
    /\ hpc' = "idle"
    /\ pc' = "terminated"
    /\ exit_status' = 1
    /\ UNCHANGED <<config, callbacks, login_response, events, dispatched>>

\* ---- auto_join_invites ----

InviteForBot_Any(e) == TRUE

\* if event.state_key == self.matrix_client.user_id
InviteForBot(e) == e.state_key = MATRIX_USER_ID

\* auto_join_invites on an invite for somebody else: nothing to do
InviteIgnored ==
    /\ CanDispatch
    /\ "auto_join_invites" \in callbacks
    /\ IsInvite(NextEvent)
    /\ ~InviteForBot(NextEvent)
    /\ dispatched' = dispatched + 1
    /\ hpc' = "idle"
    /\ UNCHANGED <<pc, config, callbacks, login_response, exit_status, events, log>>

\* auto_join_invites on an invite for the bot, up to the join call
InviteAccepted ==
    /\ CanDispatch
    /\ "auto_join_invites" \in callbacks
    /\ IsInvite(NextEvent)
    /\ InviteForBot(NextEvent)
    /\ dispatched' = dispatched + 1
    /\ hpc' = "join"
    /\ log' = Append(log, Call("join", dispatched + 1, [room_id |-> NextEvent.room_id]))
    /\ UNCHANGED <<pc, config, callbacks, login_response, exit_status, events>>

\* join returns a response (JoinResponse or JoinError): the callback is over
JoinReturn ==
    /\ pc = "sync"
    /\ hpc = "join"
    /\ \E r \in CallResults \ {"raise"} : log' = Returned(r, "none")
    /\ hpc' = "idle"
    /\ UNCHANGED <<pc, config, callbacks, login_response, exit_status, events, dispatched>>

\* join raises: auto_join_invites has no try, the exception leaves
\* sync_forever and run
JoinRaise ==
    /\ pc = "sync"
    /\ hpc = "join"
    /\ log' = Returned("raise", "none")
    /\ hpc' = "idle"
    /\ pc' = "terminated"
    /\ exit_status' = 1
    /\ UNCHANGED <<config, callbacks, login_response, events, dispatched>>

Next ==
    \/ LoginCall
    \/ LoginReturn
    \/ LoginRaise
    \/ CloseExit
    \/ RegisterCallbacks
    \/ Receive
    \/ MessageIgnored
    \/ MessageAccepted
    \/ AIReturn
    \/ AIRaise
    \/ SendReturn
    \/ ReplySendRaise
    \/ ApologySendRaise
    \/ InviteIgnored
    \/ InviteAccepted
    \/ JoinReturn
    \/ JoinRaise

Spec == Init /\ [][Next]_vars

\* the steps the event loop and its callbacks take by themselves
Dispatch == MessageIgnored \/ MessageAccepted \/ InviteIgnored \/ InviteAccepted
AIOutcome == AIReturn \/ AIRaise
SendOutcome == SendReturn \/ ReplySendRaise \/ ApologySendRaise
JoinOutcome == JoinReturn \/ JoinRaise

\* the run under the assumption that every remote call made by a callback
\* eventually returns or raises, and that the event loop starts the callback
\* of a received event when no callback is running
FairSpec ==
    /\ Spec
    /\ WF_vars(Dispatch)
    /\ WF_vars(AIOutcome)
    /\ WF_vars(SendOutcome)
    /\ WF_vars(JoinOutcome)

TypeOK ==
    /\ pc \in {"init", "login", "closing", "logged_in", "sync", "terminated"}
    /\ hpc \in {"idle", "ai", "send_reply", "send_apology", "join"}
    /\ dispatched \in 0..Len(events)
    /\ exit_status \in {-1, 1}

\* ---- vocabulary of the properties ----

Received == 1..Len(events)
Handled == 1..dispatched

\* the remote calls made for event i, and those of one kind, in call order
CallsFor(i) == SelectSeq(log, LAMBDA c : c.ev = i)
CallsOf(i, kind) == SelectSeq(log, LAMBDA c : c.ev = i /\ c.call = kind)

SelfMessage(i) ==
    events[i].type = "RoomMessageText" /\ events[i].sender = MATRIX_USER_ID
OldMessage(i) ==
    events[i].type = "RoomMessageText" /\ events[i].server_timestamp < start_time_ms
PassesFilters(i) ==
    /\ events[i].type = "RoomMessageText"
    /\ events[i].sender # MATRIX_USER_ID
    /\ events[i].server_timestamp >= start_time_ms

\* C1: a message event whose sender is the bot's own user id causes no AI
\* call and no send, whatever its timestamp and body, and however many of
\* them arrive.
C1_SelfSilence ==
    \A i \in Received : SelfMessage(i) => CallsFor(i) = <<>>

\* two own messages have been handled, one of them not older than the start
C1_Witness ==
    /\ dispatched = 2
    /\ SelfMessage(1) /\ SelfMessage(2)
    /\ events[2].server_timestamp >= start_time_ms

\* C2: a message event with server_timestamp < start_time_ms causes no AI
\* call and no send, whoever sent it; a handled message of another sender with
\* server_timestamp >= start_time_ms (equal included) has its AI call.
C2_TimestampGate ==
    /\ \A i \in Received : OldMessage(i) => CallsFor(i) = <<>>
    /\ \A i \in Handled : PassesFilters(i) => Len(CallsOf(i, "generate_content")) >= 1

\* an old message of another sender was dropped and a message stamped exactly
\* with the start time was answered
C2_Witness ==
    /\ dispatched = 2
    /\ OldMessage(1) /\ events[1].sender # MATRIX_USER_ID
    /\ PassesFilters(2) /\ events[2].server_timestamp = start_time_ms
    /\ Len(CallsOf(2, "generate_content")) = 1

AICall(i) == CallsOf(i, "generate_content")
Sends(i) == CallsOf(i, "room_send")
Joins(i) == CallsOf(i, "join")
BotInvite(i) ==
    events[i].type = "InviteMemberEvent" /\ events[i].state_key = MATRIX_USER_ID
OtherInvite(i) ==
    events[i].type = "InviteMemberEvent" /\ events[i].state_key # MATRIX_USER_ID
HandlerCalls == {"generate_content", "room_send", "join"}

\* C3: a message event that passes both filters gets exactly one AI call,
\* whose input is the event's body, and when that call succeeds what is sent
\* to the room for the event has the returned text as its body.
C3_OneCallReplyIsText ==
    \A i \in Handled : PassesFilters(i) =>
        /\ Len(AICall(i)) = 1
        /\ AICall(i)[1].arg.contents = events[i].body
        /\ AICall(i)[1].res = "ok" =>
              \A k \in 1..Len(Sends(i)) :
                  Sends(i)[k].arg.content.body = AICall(i)[1].ret

\* C4: when the AI call for an accepted message raises, exactly one message
\* is sent for the event, the apology, to the event's room, and the bot stays
\* in the sync loop for the following events.
C4_ApologyAndContinue ==
    \A i \in Handled : (PassesFilters(i) /\ AICall(i)[1].res = "raise") =>
        /\ Len(Sends(i)) = 1
        /\ Sends(i)[1].arg.content.body = ApologyText
        /\ Sends(i)[1].arg.room_id = events[i].room_id
        /\ pc = "sync"

\* C5: no failure of a remote call made in a callback leaves the callback;
\* only a login failure ends the event loop.
C5_OnlyLoginEndsLoop ==
    pc = "terminated" => login_response # "LoginResponse"

\* C6: one accepted message gets exactly one AI-call attempt and exactly one
\* send attempt, one invite for the bot exactly one join attempt, whatever
\* the calls' outcomes; nothing is attempted twice.
C6_OneAttemptEach ==
    \A i \in Handled :
        /\ PassesFilters(i) =>
              /\ Len(AICall(i)) = 1
              /\ Len(Sends(i)) <= 1
              /\ (hpc = "idle" \/ i < dispatched) => Len(Sends(i)) = 1
        /\ BotInvite(i) => Len(Joins(i)) = 1

\* C7: an invite whose state_key is the bot's user id gets exactly one join
\* call, for the room of the invite, and no other call; an invite for anybody
\* else gets no call at all.
C7_InviteJoin ==
    \A i \in Received :
        /\ (BotInvite(i) /\ i \in Handled) =>
              /\ Len(CallsFor(i)) = 1
              /\ CallsFor(i)[1].call = "join"
              /\ CallsFor(i)[1].arg.room_id = events[i].room_id
        /\ (BotInvite(i) /\ i \notin Handled) => CallsFor(i) = <<>>
        /\ OtherInvite(i) => CallsFor(i) = <<>>

\* an invite for the bot was joined (the join failed) and an invite for
\* somebody else was handled after it
C7_Witness ==
    /\ dispatched = 2 /\ hpc = "idle"
    /\ BotInvite(1) /\ Len(Joins(1)) = 1 /\ Joins(1)[1].res = "error"
    /\ OtherInvite(2)
    /\ events[1].room_id # events[2].room_id

LoginFailed == login_response \notin {"none", "LoginResponse"}

\* C8: once login has returned anything but a LoginResponse, no callback is
\* registered, the sync loop is not entered, no event is received, no AI
\* call, send or join is made, and the only step left ends the process with
\* exit status 1.
C8_LoginFailureIsFatal ==
    /\ [](LoginFailed =>
            /\ callbacks = {}
            /\ pc \in {"closing", "terminated"}
            /\ pc = "terminated" => exit_status = 1
            /\ events = <<>>
            /\ \A k \in 1..Len(log) : log[k].call \notin HandlerCalls)
    /\ [][(LoginFailed /\ pc # "terminated") =>
            (pc' = "terminated" /\ exit_status' = 1)]_vars

\* login returned a LoginError and the process has exited
C8_Witness ==
    /\ login_response = "LoginError"
    /\ pc = "terminated"
    /\ exit_status = 1

\* the lifecycle state of the process
Lifecycle ==
    CASE pc = "init" -> "IDLE"
      [] pc = "login" -> "AWAITING_LOGIN"
      [] pc \in {"logged_in", "sync"} -> "CONNECTED"
      [] pc = "closing" -> "FATAL"
      [] pc = "terminated" -> IF login_response = "LoginResponse" THEN "CRASHED" ELSE "FATAL"

LifecycleSteps ==
    {<<"IDLE", "AWAITING_LOGIN">>, <<"AWAITING_LOGIN", "CONNECTED">>,
     <<"AWAITING_LOGIN", "FATAL">>}

\* C9: the lifecycle only moves IDLE -> AWAITING_LOGIN -> CONNECTED or
\* AWAITING_LOGIN -> FATAL; callbacks are registered after a successful login
\* and events are received after that; AI calls, sends and joins are made
\* only while CONNECTED; CONNECTED is never left.
C9_Lifecycle ==
    /\ [](callbacks # {} => login_response = "LoginResponse")
    /\ [](events # <<>> => callbacks # {})
    /\ [][Lifecycle' = Lifecycle \/ <<Lifecycle, Lifecycle'>> \in LifecycleSteps]_vars
    /\ [][(Len(log') > Len(log) /\ log'[Len(log')].call \in HandlerCalls) =>
            (Lifecycle = "CONNECTED" /\ Lifecycle' = "CONNECTED")]_vars
    /\ [][Lifecycle = "CONNECTED" => Lifecycle' = "CONNECTED"]_vars

\* C10: events are handled one at a time in receipt order: the calls of the
\* log are grouped by event in receipt order, a call is made only when every
\* earlier call has returned, and a call still awaited belongs to the event
\* whose callback was started last.
C10_Sequential ==
    /\ \A j, k \in 1..Len(log) : j < k => log[j].ev <= log[k].ev
    /\ \A j \in 1..Len(log) :
          log[j].res = "pending" => (j = Len(log) /\ log[j].ev = dispatched)
    /\ \A i \in Handled : i < dispatched =>
          \/ CallsFor(i) = <<>>
          \/ CallsFor(i)[Len(CallsFor(i))].call \in {"room_send", "join"}

\* two accepted messages were answered one after the other, the second one
\* having arrived while the first was being handled
C10_Witness ==
    /\ dispatched = 2 /\ hpc = "idle"
    /\ PassesFilters(1) /\ PassesFilters(2)
    /\ Len(Sends(1)) >= 1 /\ Len(Sends(2)) >= 1
    /\ pc = "sync"

\* the positions of the log that are room_send calls
SendCalls == {k \in 1..Len(log) : log[k].call = "room_send"}

\* C11: every message the bot sends, reply or apology, goes to the room of
\* the message event that caused it, which is an event that passed both
\* filters; a send is only issued by the callback of such an event while it
\* runs.
C11_OriginatingRoom ==
    /\ [](\A k \in SendCalls :
            /\ log[k].ev \in Handled
            /\ events[log[k].ev].type = "RoomMessageText"
            /\ events[log[k].ev].sender # MATRIX_USER_ID
            /\ events[log[k].ev].server_timestamp >= start_time_ms
            /\ log[k].arg.room_id = events[log[k].ev].room_id)
    /\ [][(Len(log') > Len(log) /\ log'[Len(log')].call = "room_send") =>
            /\ hpc \in {"ai", "send_reply"}
            /\ log'[Len(log')].ev = dispatched
            /\ dispatched' = dispatched]_vars

\* a reply went to !r2 and, for the next event, an apology went to !r1
C11_Witness ==
    /\ dispatched = 2 /\ hpc = "idle"
    /\ PassesFilters(1) /\ events[1].room_id = "!r2"
    /\ PassesFilters(2) /\ events[2].room_id = "!r1"
    /\ Sends(1)[1].arg.content.body \in AITexts
    /\ Sends(2)[1].arg.content.body = ApologyText
    /\ Sends(1)[1].arg.room_id = "!r2" /\ Sends(2)[1].arg.room_id = "!r1"

\* C12: every payload handed to room_send has message type m.text, the HTML
\* format tag, and a formatted body that is the same string as the plain
\* body, for replies and apologies alike.
C12_PayloadShape ==
    \A k \in SendCalls :
        /\ log[k].arg.message_type = "m.room.message"
        /\ log[k].arg.content.msgtype = "m.text"
        /\ log[k].arg.content.format = "org.matrix.custom.html"
        /\ log[k].arg.content.formatted_body = log[k].arg.content.body
        /\ log[k].arg.content.body \in AITexts \cup {ApologyText}
        /\ DOMAIN log[k].arg.content = {"msgtype", "body", "formatted_body", "format"}

\* a reply and an apology have both been sent
C12_Witness ==
    /\ \E k \in SendCalls : log[k].arg.content.body \in AITexts
    /\ \E k \in SendCalls : log[k].arg.content.body = ApologyText

\* the positions of the log that are generate_content calls
AICalls == {k \in 1..Len(log) : log[k].call = "generate_content"}

\* C13: no step of the run (an event received, handled or ignored, an AI call
\* that succeeds or fails, a send, a join) changes the system instructions,
\* the tool set or the recorded start time; every AI call carries these same
\* system instructions and tools and the same model, so that two AI calls
\* differ in the user text only.
C13_ConfigFrame ==
    /\ [][/\ system_instruction' = system_instruction
          /\ tools' = tools
          /\ start_time_ms' = start_time_ms]_vars
    /\ [](\A k \in AICalls :
            /\ log[k].arg.system_instruction = system_instruction
            /\ log[k].arg.tools = tools)
    /\ [](\A j, k \in AICalls :
            /\ log[j].arg.system_instruction = log[k].arg.system_instruction
            /\ log[j].arg.tools = log[k].arg.tools
            /\ log[j].arg.model = log[k].arg.model
            /\ DOMAIN log[j].arg = {"model", "contents", "system_instruction", "tools"})

\* two AI calls with different user texts were made, the first one failed
C13_Witness ==
    /\ dispatched = 2 /\ hpc = "idle"
    /\ PassesFilters(1) /\ PassesFilters(2)
    /\ AICall(1)[1].arg.contents # AICall(2)[1].arg.contents
    /\ AICall(1)[1].res = "raise" /\ AICall(2)[1].res = "ok"

\* C14: the knowledge-base file never makes startup fail: whatever the state
\* of faq.adoc the constructed bot is running and its first step is the
\* login; when the file is missing or unreadable the knowledge base is the
\* empty string, and when it is readable its whole content stands between
\* the two knowledge-base markers of the system instructions.
C14_KnowledgeBase ==
    /\ Len(system_instruction) = 5
    /\ system_instruction[3] = "--- INTERNAL KNOWLEDGE BASE ---"
    /\ system_instruction[5] = "--- END OF KNOWLEDGE BASE ---"
    /\ system_instruction[4] =
          (IF faq_file \in {"missing", "unreadable"} THEN "" ELSE faq_file)
    /\ log = <<>> => (pc = "init" /\ exit_status = -1 /\ ENABLED LoginCall)

\* the file could not be read and the bot has logged in with an empty
\* knowledge base
C14_Witness ==
    /\ faq_file = "unreadable"
    /\ system_instruction[4] = ""
    /\ login_response = "LoginResponse"

\* the callback of handled event i is over (it returned or raised)
HandlerOver(i) == i < dispatched \/ (i = dispatched /\ hpc = "idle")

\* C15: one accepted message gets one or two send attempts; there is a second
\* attempt only when the AI call succeeded and the send of its reply raised,
\* and that attempt carries the apology text, not the reply; when the AI call
\* raised, or the first send returned, there is exactly one attempt.
C15_SendAttempts ==
    \A i \in Handled : PassesFilters(i) =>
        /\ Len(Sends(i)) <= 2
        /\ AICall(i)[1].res # "pending" => Len(Sends(i)) >= 1
        /\ Len(Sends(i)) = 2 =>
              /\ AICall(i)[1].res = "ok"
              /\ Sends(i)[1].res = "raise"
              /\ Sends(i)[1].arg.content.body = AICall(i)[1].ret
              /\ Sends(i)[2].arg.content.body = ApologyText
              /\ Sends(i)[2].arg.content.body # AICall(i)[1].ret
        /\ (HandlerOver(i) /\ AICall(i)[1].res = "raise") => Len(Sends(i)) = 1
        /\ (HandlerOver(i) /\ Sends(i)[1].res \in {"ok", "error"}) => Len(Sends(i)) = 1
        /\ (Len(Sends(i)) = 1 /\ AICall(i)[1].res = "raise") =>
              Sends(i)[1].arg.content.body = ApologyText

\* the send of a reply raised and the apology was then delivered
C15_Witness ==
    /\ dispatched >= 1 /\ PassesFilters(1) /\ HandlerOver(1)
    /\ AICall(1)[1].res = "ok"
    /\ Len(Sends(1)) = 2
    /\ Sends(1)[1].res = "raise" /\ Sends(1)[2].res = "ok"

\* C16: when every remote call eventually returns or raises, an accepted
\* message is eventually followed by a send attempt to its room, its callback
\* eventually ends, and the event received after it eventually gets handled.
C16_Progress ==
    \A i \in 1..MaxEvents :
        /\ [](((i \in Handled) /\ PassesFilters(i)) =>
                <>(/\ Len(Sends(i)) >= 1
                   /\ Sends(i)[1].arg.room_id = events[i].room_id
                   /\ HandlerOver(i)))
        /\ [](((i \in Handled) /\ PassesFilters(i) /\ i + 1 \in Received) =>
                <>(i + 1 \in Handled /\ HandlerOver(i + 1)))

====
